---- MODULE Spec2Model ----
(***************************************************************************)
(* Model of the todo list manager of src/Rust_Project.rs: the TodoList     *)
(* store (tasks, next_id), its text file, and the menu loop of main.       *)
(*                                                                         *)
(* A Rust String is a sequence of one-character strings, so that trim,     *)
(* replace, split, lines, the decimal formatting of an id and its parsing  *)
(* are computed the way the standard library computes them.  usize is      *)
(* WordBits wide.                                                          *)
(***************************************************************************)
EXTENDS Integers, Sequences, FiniteSets, TLC

\* ------------------------------------------------------------------ bounds
WordBits == 3      \* width of usize in the model
MaxLines == 2      \* lines of the file found at the first program start
MaxAdds  == 2      \* successful or panicking add_task calls in a behaviour
MaxRuns  == 2      \* program starts in a behaviour

MaxWord == 2^WordBits - 1

\* ----------------------------------------------------------------- strings
Digits == <<"0", "1", "2", "3", "4", "5", "6", "7", "8", "9">>

IsSpace(c) == c \in {" ", "\t", "\n", "\r"}

RECURSIVE trim_start(_)
trim_start(s) ==
    IF s # <<>> /\ IsSpace(Head(s)) THEN trim_start(Tail(s)) ELSE s

RECURSIVE trim_end(_)
trim_end(s) ==
    IF s # <<>> /\ IsSpace(s[Len(s)])
    THEN trim_end(SubSeq(s, 1, Len(s) - 1))
    ELSE s

\* str::trim
trim(s) == trim_end(trim_start(s))

\* str::replace: every non-overlapping match of pat, left to right
RECURSIVE replace(_, _, _)
replace(s, pat, to) ==
    IF Len(s) < Len(pat) THEN s
    ELSE IF SubSeq(s, 1, Len(pat)) = pat
         THEN to \o replace(SubSeq(s, Len(pat) + 1, Len(s)), pat, to)
         ELSE <<Head(s)>> \o replace(Tail(s), pat, to)

\* str::split(sep).collect(): n separators give n + 1 parts
RECURSIVE split_from(_, _, _)
split_from(s, sep, cur) ==
    IF s = <<>> THEN <<cur>>
    ELSE IF Head(s) = sep
         THEN <<cur>> \o split_from(Tail(s), sep, <<>>)
         ELSE split_from(Tail(s), sep, Append(cur, Head(s)))

split(s, sep) == split_from(s, sep, <<>>)

\* BufRead::lines: a line ends at "\n"; the "\n" and a "\r" before it are
\* dropped; text after the last "\n" is a line when it is not empty
strip_cr(l) ==
    IF l # <<>> /\ l[Len(l)] = "\r" THEN SubSeq(l, 1, Len(l) - 1) ELSE l

RECURSIVE lines_from(_, _)
lines_from(s, cur) ==
    IF s = <<>> THEN (IF cur = <<>> THEN <<>> ELSE <<cur>>)
    ELSE IF Head(s) = "\n"
         THEN <<strip_cr(cur)>> \o lines_from(Tail(s), <<>>)
         ELSE lines_from(Tail(s), Append(cur, Head(s)))

lines(s) == lines_from(s, <<>>)

\* Display for usize: decimal digits, no sign, no leading zero
RECURSIVE fmt_usize(_)
fmt_usize(n) ==
    IF n < 10 THEN <<Digits[n + 1]>>
    ELSE Append(fmt_usize(n \div 10), Digits[(n % 10) + 1])

DigitVal(c) == (CHOOSE i \in 1..10 : Digits[i] = c) - 1

IsDigit(c) == \E i \in 1..10 : Digits[i] = c

\* value of a digit string, or ParseErr on a non-digit or when it exceeds
\* MaxWord
ParseErr == -1

RECURSIVE parse_digits(_, _)
parse_digits(s, acc) ==
    IF s = <<>> THEN acc
    ELSE IF ~IsDigit(Head(s)) THEN ParseErr
    ELSE LET v == acc * 10 + DigitVal(Head(s))
         IN  IF v > MaxWord THEN ParseErr ELSE parse_digits(Tail(s), v)

\* str::parse::<usize>: an optional "+", then one or more digits
parse_usize(s) ==
    IF s = <<>> THEN ParseErr
    ELSE IF Head(s) = "+"
         THEN (IF Tail(s) = <<>> THEN ParseErr ELSE parse_digits(Tail(s), 0))
         ELSE parse_digits(s, 0)

COMPLETED == <<"c", "o", "m", "p", "l", "e", "t", "e", "d">>
PENDING   == <<"p", "e", "n", "d", "i", "n", "g">>

\* --------------------------------------------------------- TodoList (store)
\* struct Task
Task(id, description, completed) ==
    [id |-> id, description |-> description, completed |-> completed]

\* a formatted message: the format string and its arguments, already
\* formatted
Msg(f, args) == [fmt |-> f, args |-> args]

NoMsg == Msg("", <<>>)

\* Result<usize, String> and Result<(), String>; val is 0 for ()
Ok(v)  == [ok |-> TRUE, val |-> v, err |-> NoMsg]
Err(m) == [ok |-> FALSE, val |-> 0, err |-> m]

\* what a usize addition does on overflow: panic when the build has
\* overflow checks (debug), wrap when it has none (release)
OverflowBehaviour == {"panic", "wrap"}

\* TodoList::new
new == [tasks |-> <<>>, next_id |-> 1]

\* add_task without the increment of next_id
add_task_no_increment(ts, nid, description, ovf) ==
    LET trimmed_desc == trim(description)
        pushed == Append(ts, Task(nid, trimmed_desc, FALSE))
    IN  IF trimmed_desc = <<>>
        THEN [tasks |-> ts, next_id |-> nid, panic |-> FALSE,
              ret |-> Err(Msg("Task description cannot be empty", <<>>))]
        ELSE [tasks |-> pushed, next_id |-> nid, panic |-> FALSE,
              ret |-> Ok(nid)]

\* add_task testing the description for emptiness before trimming it
add_task_untrimmed(ts, nid, description, ovf) ==
    LET trimmed_desc == trim(description)
        pushed == Append(ts, Task(nid, trimmed_desc, FALSE))
    IN  IF description = <<>>
        THEN [tasks |-> ts, next_id |-> nid, panic |-> FALSE,
              ret |-> Err(Msg("Task description cannot be empty", <<>>))]
        ELSE IF nid = MaxWord /\ ovf = "panic"
        THEN [tasks |-> pushed, next_id |-> nid, panic |-> TRUE,
              ret |-> Ok(0)]
        ELSE [tasks |-> pushed, next_id |-> (nid + 1) % (2^WordBits),
              panic |-> FALSE, ret |-> Ok(nid)]

\* TodoList::add_task on the store (ts, nid); "panic" tells that the
\* increment of next_id overflowed in a checked build
add_task(ts, nid, description, ovf) ==
    LET trimmed_desc == trim(description)
        pushed == Append(ts, Task(nid, trimmed_desc, FALSE))
    IN  IF trimmed_desc = <<>>
        THEN [tasks |-> ts, next_id |-> nid, panic |-> FALSE,
              ret |-> Err(Msg("Task description cannot be empty", <<>>))]
        ELSE IF nid = MaxWord /\ ovf = "panic"
        THEN [tasks |-> pushed, next_id |-> nid, panic |-> TRUE,
              ret |-> Ok(0)]
        ELSE [tasks |-> pushed, next_id |-> (nid + 1) % (2^WordBits),
              panic |-> FALSE, ret |-> Ok(nid)]

\* TodoList::list_tasks: the lines it prints
list_tasks(ts) ==
    IF ts = <<>>
    THEN <<Msg("No tasks found.", <<>>)>>
    ELSE [i \in 1..Len(ts) |->
            Msg("{} ID: {}, {}",
                <<IF ts[i].completed THEN <<"[", "x", "]">>
                                     ELSE <<"[", " ", "]">>,
                  fmt_usize(ts[i].id), ts[i].description>>)]

\* Iterator::position / Iterator::find: index of the first task with the
\* id, 0 when there is none
position(ts, id) ==
    IF \E i \in 1..Len(ts) : ts[i].id = id
    THEN CHOOSE i \in 1..Len(ts) :
            /\ ts[i].id = id
            /\ \A j \in 1..(i - 1) : ts[j].id # id
    ELSE 0

NotFound(id) == Err(Msg("Task with ID {} not found", <<fmt_usize(id)>>))

\* complete_task answering Ok(()) when no task has the id
complete_task_silent(ts, id) ==
    LET index == position(ts, id)
    IN  IF index = 0
        THEN [tasks |-> ts, ret |-> Ok(0)]
        ELSE [tasks |-> [ts EXCEPT ![index].completed = TRUE],
              ret |-> Ok(0)]

\* complete_task flipping the flag instead of setting it
complete_task_toggle(ts, id) ==
    LET index == position(ts, id)
    IN  IF index = 0
        THEN [tasks |-> ts, ret |-> NotFound(id)]
        ELSE [tasks |-> [ts EXCEPT ![index].completed = ~@],
              ret |-> Ok(0)]

\* TodoList::complete_task
complete_task(ts, id) ==
    LET index == position(ts, id)
    IN  IF index = 0
        THEN [tasks |-> ts, ret |-> NotFound(id)]
        ELSE [tasks |-> [ts EXCEPT ![index].completed = TRUE],
              ret |-> Ok(0)]

\* TodoList::remove_task
remove_task(ts, id) ==
    LET index == position(ts, id)
    IN  IF index = 0
        THEN [tasks |-> ts, ret |-> NotFound(id)]
        ELSE [tasks |-> SubSeq(ts, 1, index - 1)
                        \o SubSeq(ts, index + 1, Len(ts)),
              ret |-> Ok(0)]

\* save_tasks writing the description as it is, commas unescaped
save_line_raw(task) ==
    LET status == IF task.completed THEN COMPLETED ELSE PENDING
    IN  fmt_usize(task.id) \o <<",">> \o status \o <<",">> \o task.description
        \o <<"\n">>

\* one line of save_tasks, with the "\n" of writeln!
save_line(task) ==
    LET status == IF task.completed THEN COMPLETED ELSE PENDING
        escaped_desc == replace(task.description, <<",">>, <<"\\", ",">>)
    IN  fmt_usize(task.id) \o <<",">> \o status \o <<",">> \o escaped_desc
        \o <<"\n">>

\* TodoList::save_tasks: the content of the file it creates
RECURSIVE save_tasks(_)
save_tasks(ts) ==
    IF ts = <<>> THEN <<>> ELSE save_line(Head(ts)) \o save_tasks(Tail(ts))

\* the file does not exist
NoFile == <<"<absent>">>

\* the loop of load_tasks taking every status but "pending" for completed
RECURSIVE load_lines_notpending(_, _, _)
load_lines_notpending(ls, n, acc) ==
    IF n > Len(ls) THEN [ok |-> TRUE, tasks |-> acc, line |-> 0]
    ELSE LET parts == split(ls[n], ",")
         IN  IF Len(parts) = 3
             THEN LET id == parse_usize(parts[1])
                      completed == (parts[2] # PENDING)
                      description == replace(parts[3], <<"\\", ",">>, <<",">>)
                  IN  IF id = ParseErr
                      THEN [ok |-> FALSE, tasks |-> <<>>, line |-> n]
                      ELSE load_lines_notpending(ls, n + 1,
                              Append(acc, Task(id, description, completed)))
             ELSE load_lines_notpending(ls, n + 1, acc)

\* the for loop of load_tasks over the lines ls, from line n (1-based), with
\* the tasks pushed so far
RECURSIVE load_lines(_, _, _)
load_lines(ls, n, acc) ==
    IF n > Len(ls) THEN [ok |-> TRUE, tasks |-> acc, line |-> 0]
    ELSE LET parts == split(ls[n], ",")
         IN  IF Len(parts) = 3
             THEN LET id == parse_usize(parts[1])
                      completed == (parts[2] = COMPLETED)
                      description == replace(parts[3], <<"\\", ",">>, <<",">>)
                  IN  IF id = ParseErr
                      THEN [ok |-> FALSE, tasks |-> <<>>, line |-> n]
                      ELSE load_lines(ls, n + 1,
                              Append(acc, Task(id, description, completed)))
             ELSE load_lines(ls, n + 1, acc)

\* Iterator::max over the ids of a non-empty sequence of tasks
max_id(ts) ==
    CHOOSE m \in {ts[i].id : i \in 1..Len(ts)} :
        \A i \in 1..Len(ts) : ts[i].id <= m

\* load_tasks answering a parse error with an empty store
load_tasks_lenient(f, ovf) ==
    IF f = NoFile
    THEN [status |-> "ok", tasks |-> new.tasks, next_id |-> new.next_id,
          line |-> 0]
    ELSE LET r == load_lines(lines(f), 1, <<>>)
         IN  IF ~r.ok \/ r.tasks = <<>>
             THEN [status |-> "ok", tasks |-> <<>>, next_id |-> new.next_id,
                   line |-> 0]
             ELSE IF max_id(r.tasks) = MaxWord /\ ovf = "panic"
             THEN [status |-> "panic", tasks |-> <<>>, next_id |-> 0,
                   line |-> 0]
             ELSE [status |-> "ok", tasks |-> r.tasks,
                   next_id |-> (max_id(r.tasks) + 1) % (2^WordBits),
                   line |-> 0]

\* TodoList::load_tasks: status "ok" with the store, "err" with the line
\* number of the parse error, or "panic" when max_id + 1 overflowed in a
\* checked build
load_tasks(f, ovf) ==
    IF f = NoFile
    THEN [status |-> "ok", tasks |-> new.tasks, next_id |-> new.next_id,
          line |-> 0]
    ELSE LET r == load_lines(lines(f), 1, <<>>)
         IN  IF ~r.ok
             THEN [status |-> "err", tasks |-> <<>>, next_id |-> 0,
                   line |-> r.line]
             ELSE IF r.tasks = <<>>
             THEN [status |-> "ok", tasks |-> <<>>, next_id |-> new.next_id,
                   line |-> 0]
             ELSE IF max_id(r.tasks) = MaxWord /\ ovf = "panic"
             THEN [status |-> "panic", tasks |-> <<>>, next_id |-> 0,
                   line |-> 0]
             ELSE [status |-> "ok", tasks |-> r.tasks,
                   next_id |-> (max_id(r.tasks) + 1) % (2^WordBits),
                   line |-> 0]

\* ------------------------------------------------------------ main (program)
VARIABLES
    pc,        \* "init" before the first start, "menu" in the loop of main,
               \* "exited" after Save and Exit, "failed" when load_tasks
               \* returned an error, "save_failed" when save_tasks did,
               \* "panicked" after an overflow panic
    tasks,     \* todo_list.tasks
    next_id,   \* todo_list.next_id
    file,      \* content of todo_list.txt, or NoFile
    out,       \* the last operation, what it returned and what it printed
    assigned,  \* history: the ids add_task has returned so far
    runs,      \* history: number of program starts
    adds       \* history: number of add_task calls that pushed a task

vars == <<pc, tasks, next_id, file, out, assigned, runs, adds>>

Out(op, ret, printed) == [op |-> op, ret |-> ret, printed |-> printed]

\* an io::Error
IoError == Msg("io::Error", <<>>)

\* a line of a file found at the first start
Line(id, status, description) ==
    id \o <<",">> \o status \o <<",">> \o description \o <<"\n">>

\* the lines a file found at the first start is made of: well formed, a
\* repeated id, a blank description after a status that is neither word, a
\* non-numeric id, the two largest ids, and a line of two fields
SampleLines ==
    << Line(<<"1">>, COMPLETED, <<"a">>),
       Line(<<"1">>, PENDING, <<"b">>),
       Line(<<"2">>, <<" ">> \o COMPLETED, <<" ">>),
       Line(<<"x">>, PENDING, <<"a">>),
       Line(fmt_usize(MaxWord - 1), COMPLETED, <<"a">>),
       Line(fmt_usize(MaxWord), PENDING, <<"a">>),
       <<"1", ",", "a", "\n">> >>

\* the files made of at most n of the sample lines from the k-th on, in
\* their order
RECURSIVE FilesOf(_, _)
FilesOf(n, k) ==
    IF n = 0 \/ k > Len(SampleLines) THEN {<<>>}
    ELSE FilesOf(n, k + 1)
         \cup {SampleLines[k] \o f : f \in FilesOf(n - 1, k + 1)}

InitFiles == {NoFile} \cup FilesOf(MaxLines, 1)

\* what read_line gives for the description: a line with its "\n"
Descriptions ==
    { <<" ", "a", ",", "b", "\n">>, <<" ", "\n">> }

\* the task ids entered for Complete Task and Remove Task
Ids == {0, 1, 2, MaxWord}

\* what read_line gives for a choice that the menu rejects: not a number, a
\* number outside 1..5, nothing at the end of input
ChoiceLines == { <<"x", "\n">>, <<"9", "\n">>, <<>> }

\* what read_line gives for a task id that is not a usize
IdLines == { <<"x", "\n">>, <<>> }

\* str::parse::<u32> of a choice; the choices entered have at most two
\* digits, so the value never comes near u32::MAX
RECURSIVE parse_digits_u32(_, _)
parse_digits_u32(s, acc) ==
    IF s = <<>> THEN acc
    ELSE IF ~IsDigit(Head(s)) THEN ParseErr
    ELSE parse_digits_u32(Tail(s), acc * 10 + DigitVal(Head(s)))

parse_u32(s) ==
    IF s = <<>> THEN ParseErr
    ELSE IF Head(s) = "+"
         THEN (IF Tail(s) = <<>> THEN ParseErr
               ELSE parse_digits_u32(Tail(s), 0))
         ELSE parse_digits_u32(s, 0)

Init ==
    /\ pc = "init"
    /\ tasks = <<>>
    /\ next_id = 0
    /\ file \in InitFiles
    /\ out = Out("none", Ok(0), <<>>)
    /\ assigned = {}
    /\ runs = 0
    /\ adds = 0

\* a program start: main calls load_tasks and enters the loop, or returns
\* its error
Start ==
    /\ pc # "menu"
    /\ runs < MaxRuns
    /\ \/ \E ovf \in OverflowBehaviour :
            LET r == load_tasks(file, ovf)
            IN  /\ pc' = CASE r.status = "ok"    -> "menu"
                           [] r.status = "err"   -> "failed"
                           [] r.status = "panic" -> "panicked"
                /\ tasks' = r.tasks
                /\ next_id' = r.next_id
                /\ out' = Out("load",
                              IF r.status = "err"
                              THEN Err(Msg("Invalid ID in line {}",
                                           <<fmt_usize(r.line)>>))
                              ELSE Ok(0),
                              <<>>)
       \/ \* File::open or the read of a line fails
          /\ file # NoFile
          /\ pc' = "failed"
          /\ tasks' = <<>>
          /\ next_id' = 0
          /\ out' = Out("load", Err(IoError), <<>>)
    /\ runs' = runs + 1
    /\ UNCHANGED <<file, assigned, adds>>

\* menu choice 1
MenuAdd(description) ==
    /\ pc = "menu"
    /\ adds < MaxAdds \/ trim(description) = <<>>
    /\ \E ovf \in OverflowBehaviour :
        LET r == add_task(tasks, next_id, description, ovf)
        IN  /\ tasks' = r.tasks
            /\ next_id' = r.next_id
            /\ pc' = IF r.panic THEN "panicked" ELSE "menu"
            /\ out' = Out("add", r.ret,
                          IF r.panic THEN <<>>
                          ELSE IF r.ret.ok
                          THEN <<Msg("Task added with ID: {}",
                                     <<fmt_usize(r.ret.val)>>)>>
                          ELSE <<Msg("Error: {}", <<r.ret.err.fmt>>)>>)
            /\ assigned' = IF r.ret.ok /\ ~r.panic
                           THEN assigned \cup {r.ret.val} ELSE assigned
            /\ adds' = IF Len(r.tasks) > Len(tasks) THEN adds + 1 ELSE adds
    /\ UNCHANGED <<file, runs>>

\* menu choice 2
MenuList ==
    /\ pc = "menu"
    /\ out' = Out("list", Ok(0), list_tasks(tasks))
    /\ UNCHANGED <<pc, tasks, next_id, file, assigned, runs, adds>>

\* menu choice 3 with a numeric task id
MenuComplete(id) ==
    /\ pc = "menu"
    /\ LET r == complete_task(tasks, id)
       IN  /\ tasks' = r.tasks
           /\ out' = Out("complete", r.ret,
                         IF r.ret.ok
                         THEN <<Msg("Task {} completed", <<fmt_usize(id)>>)>>
                         ELSE <<Msg("Error: {}", <<r.ret.err.fmt>>)>>)
    /\ UNCHANGED <<pc, next_id, file, assigned, runs, adds>>

\* menu choice 4 with a numeric task id
MenuRemove(id) ==
    /\ pc = "menu"
    /\ LET r == remove_task(tasks, id)
       IN  /\ tasks' = r.tasks
           /\ out' = Out("remove", r.ret,
                         IF r.ret.ok
                         THEN <<Msg("Task {} removed", <<fmt_usize(id)>>)>>
                         ELSE <<Msg("Error: {}", <<r.ret.err.fmt>>)>>)
    /\ UNCHANGED <<pc, next_id, file, assigned, runs, adds>>

\* Save and Exit without the break: the loop goes on after the save
MenuSaveExit_nobreak ==
    /\ pc = "menu"
    /\ file' = save_tasks(tasks)
    /\ pc' = "menu"
    /\ out' = Out("save", Ok(0), <<Msg("Tasks saved. Goodbye!", <<>>)>>)
    /\ UNCHANGED <<tasks, next_id, assigned, runs, adds>>

\* menu choice 5
MenuSaveExit ==
    /\ pc = "menu"
    /\ file' = save_tasks(tasks)
    /\ pc' = "exited"
    /\ out' = Out("save", Ok(0), <<Msg("Tasks saved. Goodbye!", <<>>)>>)
    /\ UNCHANGED <<tasks, next_id, assigned, runs, adds>>

\* save_tasks fails in menu choice 5 and main returns the error:
\* File::create failed (the file is as it was) or a write after it failed (the
\* file is left truncated)
MenuSaveFail(created) ==
    /\ pc = "menu"
    /\ file' = IF created THEN <<>> ELSE file
    /\ pc' = "save_failed"
    /\ out' = Out("save", Err(IoError), <<>>)
    /\ UNCHANGED <<tasks, next_id, assigned, runs, adds>>

\* a choice that is not a number, or a number that is none of 1..5
MenuRejected(line) ==
    /\ pc = "menu"
    /\ parse_u32(trim(line)) \notin 1..5
    /\ out' = Out("rejected", Ok(0),
                  IF parse_u32(trim(line)) = ParseErr
                  THEN <<Msg("Invalid input. Please enter a number.", <<>>)>>
                  ELSE <<Msg("Invalid choice. Please try again.", <<>>)>>)
    /\ UNCHANGED <<pc, tasks, next_id, file, assigned, runs, adds>>

\* the task id unwrapped instead of matched: a panic on an id that does not
\* parse
MenuBadId_unwrap(line) ==
    /\ pc = "menu"
    /\ parse_usize(trim(line)) = ParseErr
    /\ pc' = "panicked"
    /\ out' = Out("rejected", Ok(0), <<>>)
    /\ UNCHANGED <<tasks, next_id, file, assigned, runs, adds>>

\* menu choice 3 or 4 with a task id that does not parse
MenuBadId(line) ==
    /\ pc = "menu"
    /\ parse_usize(trim(line)) = ParseErr
    /\ out' = Out("rejected", Ok(0), <<Msg("Invalid task ID", <<>>)>>)
    /\ UNCHANGED <<pc, tasks, next_id, file, assigned, runs, adds>>

Next ==
    \/ Start
    \/ \E description \in Descriptions : MenuAdd(description)
    \/ MenuList
    \/ \E id \in Ids : MenuComplete(id)
    \/ \E id \in Ids : MenuRemove(id)
    \/ MenuSaveExit
    \/ \E created \in BOOLEAN : MenuSaveFail(created)
    \/ \E line \in ChoiceLines : MenuRejected(line)
    \/ \E line \in IdLines : MenuBadId(line)

\* the program and its later starts on the file it left
Spec == Init /\ [][Next]_vars

\* one run of the program on the file it finds
NextRun ==
    \/ pc = "init" /\ Start
    \/ \E description \in Descriptions : MenuAdd(description)
    \/ MenuList
    \/ \E id \in Ids : MenuComplete(id)
    \/ \E id \in Ids : MenuRemove(id)
    \/ MenuSaveExit
    \/ \E created \in BOOLEAN : MenuSaveFail(created)
    \/ \E line \in ChoiceLines : MenuRejected(line)
    \/ \E line \in IdLines : MenuBadId(line)

SpecRun == Init /\ [][NextRun]_vars

\* ------------------------------------------------------------------ claims
HasId(ts, id) == \E i \in 1..Len(ts) : ts[i].id = id

Triples(ts) ==
    {<<ts[i].id, ts[i].description, ts[i].completed>> : i \in 1..Len(ts)}

TrimmedNonEmpty(ts) ==
    \A i \in 1..Len(ts) :
        ts[i].description # <<>> /\ trim(ts[i].description) = ts[i].description

\* ts without its k-th task
Without(ts, k) == SubSeq(ts, 1, k - 1) \o SubSeq(ts, k + 1, Len(ts))

\* C1: for every store whose descriptions are trimmed and non-empty,
\* load_tasks of the file written by save_tasks returns a store with the same
\* set of (id, description, completed) triples.  (A load that panics on the
\* overflow of next_id is left to C4 and not counted against C1 here.)
C1_RoundTrip ==
    (pc = "menu" /\ TrimmedNonEmpty(tasks)) =>
        \A ovf \in OverflowBehaviour :
            LET r == load_tasks(save_tasks(tasks), ovf)
            IN  r.status # "panic" =>
                    /\ r.status = "ok"
                    /\ Triples(r.tasks) = Triples(tasks)

\* C2: over the whole history, restarts included, every id returned by
\* add_task differs from every id add_task has given to a task before.
C2_NeverReused ==
    [][\A d \in Descriptions :
          (MenuAdd(d) /\ trim(d) # <<>> /\ pc' = "menu")
              => out'.ret.val \notin assigned]_vars

\* C3: in every state of the store no two tasks have the same id.
C3_UniqueIds ==
    pc = "menu" =>
        \A i, j \in 1..Len(tasks) : i # j => tasks[i].id # tasks[j].id

\* C4: in every state of the store next_id is strictly greater than the id
\* of every task present, and is 1 when the store is empty.
C4_NextIdAbove ==
    pc = "menu" =>
        /\ \A i \in 1..Len(tasks) : next_id > tasks[i].id
        /\ tasks = <<>> => next_id = 1

\* C5: in every state of the store every description is non-empty after
\* trimming.
C5_NonEmptyDescriptions ==
    pc = "menu" =>
        \A i \in 1..Len(tasks) : trim(tasks[i].description) # <<>>

\* C6: add_task with a description that is non-empty after trimming appends
\* one task with the pre-call next_id, the trimmed description and
\* completed = false, increases next_id by exactly 1, returns that id and
\* leaves the earlier tasks unchanged.
C6_AddAppends ==
    [][\A d \in Descriptions :
          (MenuAdd(d) /\ trim(d) # <<>>) =>
              /\ pc' = "menu"
              /\ tasks' = Append(tasks, Task(next_id, trim(d), FALSE))
              /\ next_id' = next_id + 1
              /\ out'.ret = Ok(next_id)]_vars

\* C7: add_task with an empty or whitespace-only description returns an
\* error and leaves tasks and next_id unchanged, so that the next successful
\* add returns the id it would have returned without the failed call.
C7_EmptyAddRejected ==
    [][\A d \in Descriptions :
          (MenuAdd(d) /\ trim(d) = <<>>) =>
              /\ ~out'.ret.ok
              /\ pc' = "menu"
              /\ tasks' = tasks
              /\ next_id' = next_id
              /\ \A d2 \in Descriptions, ovf \in OverflowBehaviour :
                    add_task(tasks', next_id', d2, ovf).ret
                        = add_task(tasks, next_id, d2, ovf).ret]_vars

\* a rejected add on a store that holds a task
C7_Witness ==
    /\ pc = "menu"
    /\ out.op = "add"
    /\ ~out.ret.ok
    /\ tasks # <<>>
    /\ next_id > 1

\* C8: complete_task and remove_task with an id that no task has return a
\* not-found error naming that id and leave tasks and next_id unchanged.
C8_AbsentIdRejected ==
    [][\A id \in Ids :
          ((MenuComplete(id) \/ MenuRemove(id)) /\ ~HasId(tasks, id)) =>
              /\ ~out'.ret.ok
              /\ out'.ret.err.fmt = "Task with ID {} not found"
              /\ out'.ret.err.args = <<fmt_usize(id)>>
              /\ tasks' = tasks
              /\ next_id' = next_id]_vars

\* a not-found error for the id of a task that was added and removed
\* earlier, on a store that still holds a task
C8_Witness ==
    /\ pc = "menu"
    /\ out.op \in {"complete", "remove"}
    /\ ~out.ret.ok
    /\ tasks # <<>>
    /\ \E id \in assigned :
          /\ out.ret.err.args = <<fmt_usize(id)>>
          /\ ~HasId(tasks, id)

\* C9: remove_task with an id present in the store succeeds, removes the
\* task with that id, keeps the other tasks and their order, does not change
\* next_id, and afterwards no task with that id remains.
C9_RemoveFrame ==
    [][\A id \in Ids :
          (MenuRemove(id) /\ HasId(tasks, id)) =>
              /\ out'.ret.ok
              /\ \E k \in 1..Len(tasks) :
                    tasks[k].id = id /\ tasks' = Without(tasks, k)
              /\ next_id' = next_id
              /\ ~HasId(tasks', id)]_vars

\* C10: complete_task with an id present in the store succeeds; afterwards
\* every task with that id is completed, nothing else of the store has
\* changed, and a second call succeeds and changes nothing.
C10_CompleteFrame ==
    [][\A id \in Ids :
          (MenuComplete(id) /\ HasId(tasks, id)) =>
              /\ out'.ret.ok
              /\ next_id' = next_id
              /\ Len(tasks') = Len(tasks)
              /\ \A i \in 1..Len(tasks) :
                    /\ tasks'[i].id = tasks[i].id
                    /\ tasks'[i].description = tasks[i].description
                    /\ tasks[i].id = id => tasks'[i].completed
                    /\ tasks[i].id # id
                          => tasks'[i].completed = tasks[i].completed
              /\ complete_task(tasks', id) = [tasks |-> tasks', ret |-> Ok(0)]
       ]_vars

\* C11: load_tasks on a path with no file returns, without error, an empty
\* store with next_id = 1; on an existing file it returns a store whose
\* next_id is one more than the largest loaded id, or 1 when no line gave a
\* task.
C11_LoadNextId ==
    out.op = "load" =>
        /\ file = NoFile => (pc = "menu" /\ tasks = <<>> /\ next_id = 1)
        /\ pc = "menu" =>
              IF tasks = <<>> THEN next_id = 1
              ELSE /\ \E i \in 1..Len(tasks) : next_id = tasks[i].id + 1
                   /\ \A i \in 1..Len(tasks) : tasks[i].id < next_id

\* the fields of a line when a comma after a backslash does not separate
RECURSIVE EscFieldsFrom(_, _)
EscFieldsFrom(s, cur) ==
    IF s = <<>> THEN <<cur>>
    ELSE IF Len(s) >= 2 /\ s[1] = "\\" /\ s[2] = ","
         THEN EscFieldsFrom(SubSeq(s, 3, Len(s)), cur \o <<"\\", ",">>)
    ELSE IF Head(s) = ","
         THEN <<cur>> \o EscFieldsFrom(Tail(s), <<>>)
         ELSE EscFieldsFrom(Tail(s), Append(cur, Head(s)))

EscFields(s) == EscFieldsFrom(s, <<>>)

\* the numbers of the lines of f that have three fields
ThreeFieldLines(f) ==
    {n \in 1..Len(lines(f)) : Len(EscFields(lines(f)[n])) = 3}

\* those among them whose id field is not an unsigned integer
BadIdLines(f) ==
    {n \in ThreeFieldLines(f) :
        parse_usize(EscFields(lines(f)[n])[1]) = ParseErr}

\* C12: load_tasks skips, without error, the lines that are not three fields
\* once escaped commas are accounted for, and loads the others; a three-field
\* line whose id is not an unsigned integer makes the load fail with the
\* 1-based number of that line, and no store is returned.  (Stated for a
\* load that met no I/O error and no overflow panic.)
C12_SkipOrFail ==
    (out.op = "load" /\ file # NoFile /\ pc \in {"menu", "failed"}
       /\ out.ret.err # IoError) =>
        IF BadIdLines(file) = {}
        THEN /\ pc = "menu"
             /\ Len(tasks) = Cardinality(ThreeFieldLines(file))
        ELSE /\ pc = "failed"
             /\ \E n \in BadIdLines(file) :
                   /\ \A m \in BadIdLines(file) : n <= m
                   /\ out.ret.err = Msg("Invalid ID in line {}",
                                        <<fmt_usize(n)>>)

\* a description with a backslash put before every comma
RECURSIVE EscapeCommas(_)
EscapeCommas(d) ==
    IF d = <<>> THEN <<>>
    ELSE (IF Head(d) = "," THEN <<"\\", ",">> ELSE <<Head(d)>>)
         \o EscapeCommas(Tail(d))

\* the lines ls, each ended by "\n", one after the other
RECURSIVE Joined(_)
Joined(ls) ==
    IF ls = <<>> THEN <<>> ELSE Head(ls) \o <<"\n">> \o Joined(Tail(ls))

\* the line id,status_word,escaped_description of a task
LineOf(t) ==
    fmt_usize(t.id) \o <<",">>
    \o (IF t.completed THEN COMPLETED ELSE PENDING) \o <<",">>
    \o EscapeCommas(t.description)

\* C13: save_tasks writes one line per task, in the order of the store, of
\* the form id,status_word,escaped_description; nothing else is in the file
\* afterwards, and tasks and next_id are unchanged.
C13_SaveFormat ==
    [][(pc = "menu" /\ pc' = "exited") =>
          /\ file' = Joined([i \in 1..Len(tasks) |-> LineOf(tasks[i])])
          /\ Len(lines(file')) = Len(tasks)
          /\ \A i \in 1..Len(tasks) : lines(file')[i] = LineOf(tasks[i])
          /\ tasks' = tasks
          /\ next_id' = next_id]_vars

\* a save of a completed task and of a pending task whose description has a
\* comma
C13_Witness ==
    /\ pc = "exited"
    /\ out.op = "save"
    /\ Len(tasks) >= 2
    /\ tasks[1].completed
    /\ \E i \in 1..Len(tasks) :
          /\ ~tasks[i].completed
          /\ \E k \in 1..Len(tasks[i].description) :
                tasks[i].description[k] = ","
    /\ file = Joined([i \in 1..Len(tasks) |-> LineOf(tasks[i])])

Ended == {"exited", "failed", "save_failed", "panicked"}

\* C14: within a run the file is written only by Save and Exit and the run
\* ends with that write, so it is written at most once; the loop ends
\* normally only by Save and Exit, right after the save of the store as it
\* stands; no other input, the end of input included, ends it normally.
C14_SaveOnlyAtExit ==
    [][/\ file' # file =>
            (pc = "menu" /\ out'.op = "save" /\ pc' \in Ended)
       /\ pc \in Ended => file' = file
       /\ (pc' = "exited" /\ pc # "exited") =>
            /\ pc = "menu"
            /\ out'.op = "save"
            /\ out'.ret.ok
            /\ file' = Joined([i \in 1..Len(tasks) |-> LineOf(tasks[i])])
            /\ tasks' = tasks
            /\ next_id' = next_id]_vars

\* a normal end of a run that added a task, with the file holding the store
C14_Witness ==
    /\ pc = "exited"
    /\ adds > 0
    /\ tasks # <<>>
    /\ file = Joined([i \in 1..Len(tasks) |-> LineOf(tasks[i])])

RejectionMessages ==
    { Msg("Invalid input. Please enter a number.", <<>>),
      Msg("Invalid choice. Please try again.", <<>>),
      Msg("Invalid task ID", <<>>),
      Msg("Error: {}", <<"Task description cannot be empty">>),
      Msg("Error: {}", <<"Task with ID {} not found">>) }

\* C15: a choice that is not a number or is outside 1..5, an add with an
\* empty description, and a complete or remove with a non-numeric or unknown
\* id each print a message, leave tasks and next_id unchanged and return to
\* the menu; none ends the program.
C15_RejectedInputs ==
    [][(/\ out'.op = "rejected" \/ ~out'.ret.ok
        /\ \/ \E line \in ChoiceLines : MenuRejected(line)
           \/ \E line \in IdLines : MenuBadId(line)
           \/ \E d \in Descriptions : MenuAdd(d) /\ trim(d) = <<>>
           \/ \E id \in Ids :
                 (MenuComplete(id) \/ MenuRemove(id)) /\ ~HasId(tasks, id))
       => /\ Len(out'.printed) = 1
          /\ out'.printed[1] \in RejectionMessages
          /\ tasks' = tasks
          /\ next_id' = next_id
          /\ file' = file
          /\ pc' = "menu"]_vars

\* a task id that is not a number was rejected on a store that holds a task
C15_Witness ==
    /\ pc = "menu"
    /\ out.op = "rejected"
    /\ out.printed = <<Msg("Invalid task ID", <<>>)>>
    /\ tasks # <<>>

\* a line that splits into three parts at its commas
IsThreeParts(l) == Len(split(l, ",")) = 3

\* C16: a three-field line whose status field is exactly "completed" gives a
\* task with completed = true; any other status field gives completed =
\* false, without error.
C16_StatusWord ==
    (out.op = "load" /\ pc = "menu" /\ file # NoFile) =>
        LET three == SelectSeq(lines(file), IsThreeParts)
        IN  /\ Len(tasks) = Len(three)
            /\ \A k \in 1..Len(three) :
                  tasks[k].completed = (split(three[k], ",")[2] = COMPLETED)

\* a load of a line with the status "completed" and of a line with the
\* status " completed"
C16_Witness ==
    /\ out.op = "load"
    /\ pc = "menu"
    /\ Len(tasks) = 2
    /\ tasks[1].completed
    /\ split(lines(file)[1], ",")[2] = COMPLETED
    /\ ~tasks[2].completed
    /\ split(lines(file)[2], ",")[2] = <<" ">> \o COMPLETED

\* the file has a line of three parts whose id does not parse
HasInvalidId(f) ==
    /\ f # NoFile
    /\ \E n \in 1..Len(lines(f)) :
          /\ IsThreeParts(lines(f)[n])
          /\ parse_usize(split(lines(f)[n], ",")[1]) = ParseErr

\* C17: an error of load_tasks at the program start ends the program with
\* that error before the loop is entered: a file with an invalid id gives
\* the error, no step follows it, and the file is as it was.
C17_LoadErrorEndsRun ==
    [][/\ pc # "failed"
       /\ (pc = "init" /\ HasInvalidId(file)) => pc' = "failed"
       /\ pc' = "failed" =>
            /\ pc = "init"
            /\ out'.op = "load"
            /\ ~out'.ret.ok
            /\ out'.printed = <<>>
            /\ file' = file
            /\ adds' = 0
            /\ assigned' = {}]_vars

\* a parse error on the second line of a file whose first line is well
\* formed
C17_Witness ==
    /\ pc = "failed"
    /\ out.ret.err = Msg("Invalid ID in line {}", <<<<"2">>>>)
    /\ Len(lines(file)) = 2
    /\ IsThreeParts(lines(file)[1])

\* C18: in a run that started from the empty store of TodoList::new, the
\* ids of the tasks increase strictly from front to back, every id is
\* between 1 and next_id - 1, and next_id is 1 plus the number of successful
\* adds.
C18_FreshStoreIds ==
    (pc = "menu" /\ file = NoFile) =>
        /\ \A i, j \in 1..Len(tasks) : i < j => tasks[i].id < tasks[j].id
        /\ \A i \in 1..Len(tasks) :
              1 <= tasks[i].id /\ tasks[i].id <= next_id - 1
        /\ next_id = 1 + adds

\* two adds and a removal of the first task on a fresh store
C18_Witness ==
    /\ pc = "menu"
    /\ file = NoFile
    /\ adds = 2
    /\ Len(tasks) = 1
    /\ tasks[1].id = 2
    /\ out.op = "remove"

\* C19: within a run a completed task is never set back: after every
\* operation it is still completed, unless the operation removed a task and
\* left the others as they were.
C19_CompletedStays ==
    [][pc = "menu" =>
          \/ /\ Len(tasks') >= Len(tasks)
             /\ \A i \in 1..Len(tasks) :
                   tasks[i].completed =>
                       /\ tasks'[i].completed
                       /\ tasks'[i].id = tasks[i].id
                       /\ tasks'[i].description = tasks[i].description
          \/ \E k \in 1..Len(tasks) : tasks' = Without(tasks, k)]_vars

\* a task added and completed in this run is still completed after a later
\* add
C19_Witness ==
    /\ pc = "menu"
    /\ out.op = "add"
    /\ out.ret.ok
    /\ \E i \in 1..Len(tasks) :
          /\ tasks[i].completed
          /\ tasks[i].id \in assigned
          /\ tasks[i].id # out.ret.val

\* no description of ts holds a comma or a line break
NoCommaNoBreak(ts) ==
    \A i \in 1..Len(ts) :
        \A k \in 1..Len(ts[i].description) :
            ts[i].description[k] \notin {",", "\n", "\r"}

\* C20: for every store whose descriptions hold no comma and no line break,
\* load_tasks of the file written by save_tasks does not fail and returns the
\* same tasks in the same order, with next_id one more than the largest id
\* (1 for an empty store).
C20_PlainRoundTrip ==
    (pc = "menu" /\ NoCommaNoBreak(tasks)) =>
        \A ovf \in OverflowBehaviour :
            LET r == load_tasks(save_tasks(tasks), ovf)
            IN  /\ r.status = "ok"
                /\ r.tasks = tasks
                /\ IF tasks = <<>> THEN r.next_id = 1
                   ELSE /\ \E i \in 1..Len(tasks) :
                              r.next_id = tasks[i].id + 1
                        /\ \A i \in 1..Len(tasks) : tasks[i].id < r.next_id

====
